---- MODULE Spec2Model ----
(***************************************************************************)
(* Model of the OAI-PMH harvesting core of consechador-oai: the paginated   *)
(* client (OaiClient.iter_records), the Dublin-Core mappers, the harvest    *)
(* state store and the two source connectors, driven by the harvest         *)
(* endpoints of app/main.py against an arbitrary OAI-PMH server.            *)
(*                                                                         *)
(* Text is a sequence of tokens; the token " " is whitespace, so that       *)
(* str.strip() and str.startswith() are computed, not assumed.  A Python    *)
(* None text is the empty sequence (the code always reads `el.text or ""`). *)
(***************************************************************************)
EXTENDS Integers, Sequences, FiniteSets, TLC

\* ------------------------------------------------------------------ bounds

\* Most record elements in one page of a server response.
MaxRecs == 2
\* Most (identifier, dc) pairs the server lets one invocation be handed.
MaxCount == 2
\* Last day of the clock (days are 1..MaxDay).
MaxDay == 2
\* Most fields in a Dublin-Core element handed to the mapper on its own.
MaxFields == 2

\* ------------------------------------------------------------ configuration

\* The harvest invocations that may be in flight at once (request handlers).
Harvests == {"h1", "h2"}

OMEKA_UH_CONFIG ==
    [repo_id |-> "omeka_uh", metadata_prefix |-> "oai_dc", set_spec |-> "2161263",
     institution |-> "Universidad de La Habana",
     repository |-> "Omeka UH Scriptorium"]

DSPACE_UCLV_CONFIG ==
    [repo_id |-> "dspace_uclv", metadata_prefix |-> "oai_dc", set_spec |-> "",
     institution |-> "Universidad Central \"Marta Abreu\" de Las Villas",
     repository |-> "DSpace UCLV"]

Configs == {OMEKA_UH_CONFIG, DSPACE_UCLV_CONFIG}

Modes == {"full", "incremental"}

\* Python's None for an Optional[str] date (days are >= 1).
None == 0

\* Python's None / "" for an Optional[str] held as text.
NoText == <<>>

Days == 1..MaxDay

\* --------------------------------------------------------------------- text

IsSpace(tok) == tok = " "

RECURSIVE LStrip(_)
LStrip(s) == IF s # <<>> /\ IsSpace(Head(s)) THEN LStrip(Tail(s)) ELSE s

RECURSIVE RStrip(_)
RStrip(s) ==
    IF s # <<>> /\ IsSpace(s[Len(s)]) THEN RStrip(SubSeq(s, 1, Len(s) - 1)) ELSE s

\* str.strip()
Strip(s) == RStrip(LStrip(s))

\* str.startswith(prefix) for a one-token prefix
StartsWith(s, prefix) == s # <<>> /\ s[1] = prefix

\* ------------------------------------------------------- Dublin-Core mapper

\* One Dublin-Core field of a <dc> element: its tag and its text.
DcField(tag, text) == [tag |-> tag, text |-> text]

RECURSIVE AllNonBlank(_, _)
AllNonBlank(dc_el, tag) ==
    IF dc_el = <<>> THEN <<>>
    ELSE LET el == Head(dc_el)
             text == Strip(el.text)
             rest == AllNonBlank(Tail(dc_el), tag)
         IN  IF el.tag = tag /\ text # <<>> THEN <<text>> \o rest ELSE rest

\* _get_all: every non-blank occurrence of the tag, stripped, in document order.
GetAll(dc_el, tag) == AllNonBlank(dc_el, tag)

\* Mutant of GetFirst: the first occurrence decides, blank or not.
GetFirst_FirstOccurrence(dc_el, tag) ==
    LET occ == {i \in 1..Len(dc_el) : dc_el[i].tag = tag}
    IN  IF occ = {} THEN NoText
        ELSE Strip(dc_el[CHOOSE i \in occ : \A j \in occ : i <= j].text)

\* _get_first: the first non-blank occurrence of the tag, stripped, or None.
GetFirst(dc_el, tag) ==
    LET all == AllNonBlank(dc_el, tag)
    IN  IF all = <<>> THEN NoText ELSE all[1]

\* Mutants of FirstUrl: the first identifier value alone decides; the last
\* value that looks like a URL wins.
FirstUrl_HeadOnly(vals) ==
    IF vals # <<>> /\ (StartsWith(vals[1], "http://") \/ StartsWith(vals[1], "https://"))
    THEN vals[1] ELSE NoText

FirstUrl_Last(vals) ==
    LET urls == {i \in 1..Len(vals) :
                    StartsWith(vals[i], "http://") \/ StartsWith(vals[i], "https://")}
    IN  IF urls = {} THEN NoText
        ELSE vals[CHOOSE i \in urls : \A j \in urls : j <= i]

\* The first identifier value that starts with http:// or https://, or None.
RECURSIVE FirstUrl(_)
FirstUrl(vals) ==
    IF vals = <<>> THEN NoText
    ELSE IF StartsWith(Head(vals), "http://") \/ StartsWith(Head(vals), "https://")
         THEN Head(vals)
         ELSE FirstUrl(Tail(vals))

\* pydantic's HttpUrl validation of url_landing_page (None is accepted): a
\* scheme must be followed by a host, and the value holds no whitespace.
HttpUrlValid(url) ==
    \/ url = NoText
    \/ /\ StartsWith(url, "http://") \/ StartsWith(url, "https://")
       /\ Len(url) >= 2
       /\ \A i \in 1..Len(url) : ~IsSpace(url[i])

\* The record built by map_omeka_dc_to_record / map_dspace_dc_to_record,
\* before the model's validation.
MappedFields(oai_identifier, dc_el, institution, repository, now) ==
    LET title == GetFirst(dc_el, "title")
        creators == GetAll(dc_el, "creator")
    IN  [id |-> oai_identifier,
         oai_identifier |-> oai_identifier,
         title |-> IF title = NoText THEN <<"Sin titulo">> ELSE title,
         authors |-> IF creators = <<>> THEN GetAll(dc_el, "contributor") ELSE creators,
         institution |-> institution,
         repository |-> repository,
         date_issued |-> GetFirst(dc_el, "date"),
         type |-> GetFirst(dc_el, "type"),
         url_landing_page |-> FirstUrl(GetAll(dc_el, "identifier")),
         abstract |-> GetFirst(dc_el, "description"),
         keywords |-> GetAll(dc_el, "subject"),
         language |-> GetFirst(dc_el, "language"),
         collections |-> <<>>,
         date_indexed |-> now]

\* Whether UnifiedScholarlyRecord(...) raises pydantic's ValidationError.
MapperRaises(oai_identifier, dc_el) ==
    ~HttpUrlValid(FirstUrl(GetAll(dc_el, "identifier")))

\* ------------------------------------------------------ the OAI-PMH server

\* The <dc> payloads the modelled servers serve.
DcFull ==
    << DcField("title", <<" ", "Title A", " ">>),
       DcField("creator", <<"Ana">>),
       DcField("identifier", <<"hdl:1">>),
       DcField("identifier", <<"http://", "host/1">>) >>

DcBare == << DcField("title", <<" ">>), DcField("contributor", <<"Luis">>) >>

\* An identifier that looks like a URL and is not one (no host).
DcBadUrl == << DcField("title", <<"Title C">>), DcField("identifier", <<"https://">>) >>

\* One <record> element of a page: whether it has a <header>, an <identifier>
\* in it (and its text), a <metadata> element, and which Dublin-Core container
\* that holds ("none": neither oai_dc:dc nor dc:dc).
RecordEl(header, has_identifier, identifier_text, has_metadata, container, dc) ==
    [header |-> header, has_identifier |-> has_identifier,
     identifier_text |-> identifier_text, has_metadata |-> has_metadata,
     container |-> container, dc |-> dc]

RecordEls ==
    { RecordEl(TRUE, TRUE, <<"oai:a">>, TRUE, "oai_dc:dc", DcFull),
      RecordEl(TRUE, TRUE, <<" ", "oai:b", " ">>, TRUE, "dc:dc", DcBare),
      RecordEl(TRUE, TRUE, <<"oai:c">>, TRUE, "oai_dc:dc", DcBadUrl),
      RecordEl(FALSE, FALSE, NoText, TRUE, "oai_dc:dc", DcFull),
      RecordEl(TRUE, FALSE, NoText, TRUE, "oai_dc:dc", DcFull),
      RecordEl(TRUE, TRUE, <<" ">>, TRUE, "oai_dc:dc", DcFull),
      RecordEl(TRUE, TRUE, <<"oai:a">>, FALSE, "none", <<>>),
      RecordEl(TRUE, TRUE, <<"oai:b">>, TRUE, "none", <<>>) }

\* The <resumptionToken> element of a page: absent, or present with a text.
RtEl(present, text) == [present |-> present, text |-> text]

RtEls ==
    { RtEl(FALSE, NoText), RtEl(TRUE, NoText), RtEl(TRUE, <<" ">>),
      RtEl(TRUE, <<"t1">>), RtEl(TRUE, <<" ", "t2", " ">>) }

RECURSIVE SeqsUpTo(_, _)
SeqsUpTo(S, n) ==
    IF n = 0 THEN {<<>>}
    ELSE LET shorter == SeqsUpTo(S, n - 1)
         IN  shorter \cup {Append(s, x) : s \in shorter, x \in S}

\* The record lists a page may carry.
RecordLists == SeqsUpTo(RecordEls, MaxRecs)

\* The <dc> elements given to the mapper on its own: every sequence of up to
\* MaxFields title and identifier fields over these texts.
TitleTexts == { NoText, <<" ">>, <<" ", "Title A", " ">>, <<"Title B">> }

IdentifierTexts ==
    { <<" ">>, <<"hdl:1">>, <<"http://", "host/1">>, <<" ", "https://", "host/2">>,
      <<"https://">> }

DcFields ==
    {DcField("title", t) : t \in TitleTexts}
        \cup {DcField("identifier", t) : t \in IdentifierTexts}

DcEls == SeqsUpTo(DcFields, MaxFields)

\* The HTTP statuses for which raise_for_status() raises HTTPStatusError.
ErrorStatuses == {404, 500, 503}

\* ----------------------------------------------------------- the paginator

\* Mutant of Skipped: a blank identifier is not skipped.
Skipped_KeepsBlank(rec) ==
    \/ ~rec.header
    \/ ~rec.has_identifier
    \/ ~rec.has_metadata
    \/ rec.container \notin {"oai_dc:dc", "dc:dc"}

\* What one <record> element makes iter_records do: skip it, or yield the
\* pair (stripped identifier, dc element).
Skipped(rec) ==
    \/ ~rec.header
    \/ ~rec.has_identifier
    \/ Strip(rec.identifier_text) = <<>>
    \/ ~rec.has_metadata
    \/ rec.container \notin {"oai_dc:dc", "dc:dc"}

Pair(rec) == [oai_identifier |-> Strip(rec.identifier_text), dc_el |-> rec.dc]

\* The pairs the for-loop over root.findall(".//oai:record") yields, in order.
RECURSIVE Yields(_)
Yields(recs) ==
    IF recs = <<>> THEN <<>>
    ELSE IF Skipped(Head(recs)) THEN Yields(Tail(recs))
         ELSE <<Pair(Head(recs))>> \o Yields(Tail(recs))

\* Mutant of NextToken: the text of the element is not stripped.
NextToken_NoStrip(rt_el) ==
    IF rt_el.present /\ rt_el.text # <<>> THEN rt_el.text ELSE NoText

\* The token to continue with after a page, NoText when pagination is over.
NextToken(rt_el) ==
    IF rt_el.present /\ Strip(rt_el.text) # <<>> THEN Strip(rt_el.text) ELSE NoText

\* Mutants of BreaksLoop: no soft end at all; a soft end without a token in
\* hand; a soft end on any status; a soft end on any failure, a timeout included.
BreaksLoop_Never(exc, resumption_token, status) == FALSE

BreaksLoop_IgnoresToken(exc, resumption_token, status) ==
    exc = "httpx.HTTPStatusError" /\ status >= 500

BreaksLoop_AnyStatus(exc, resumption_token, status) ==
    exc = "httpx.HTTPStatusError" /\ resumption_token # NoText

BreaksLoop_AnyFailure(exc, resumption_token, status) ==
    resumption_token # NoText /\ (exc # "httpx.HTTPStatusError" \/ status >= 500)

\* Whether the failure of a request breaks out of the loop instead of raising:
\* an HTTPStatusError with status >= 500 and a resumption token in hand.
BreaksLoop(exc, resumption_token, status) ==
    exc = "httpx.HTTPStatusError" /\ resumption_token # NoText /\ status >= 500

\* Mutant of PageExhausted: the token is followed with pairs still unconsumed.
PageExhausted_Always(pending) == TRUE

\* The records of the page are all yielded before its token is looked at.
PageExhausted(pending) == pending = <<>>

\* Mutant of AfterPage: the loop has no break.
AfterPage_NoBreak(token) == "request"

\* Where the loop goes after a page: the next request, or out (break).
AfterPage(token) == IF token # NoText THEN "request" ELSE "finish"

\* Mutant of ReqParams: a continuation request repeats the metadata prefix.
ReqParams_KeepsPrefix(cfg, from_date, resumption_token) ==
    IF resumption_token # NoText
    THEN [verb |-> "ListRecords", resumptionToken |-> resumption_token,
          metadataPrefix |-> cfg.metadata_prefix]
    ELSE [verb |-> "ListRecords", metadataPrefix |-> cfg.metadata_prefix]

\* The query parameters of the next request: the token alone once there is
\* one; otherwise the prefix, the set if the source has one and the from date
\* if one was given (the connectors never pass until_date).
ReqParams(cfg, from_date, resumption_token) ==
    IF resumption_token # NoText
    THEN [verb |-> "ListRecords", resumptionToken |-> resumption_token]
    ELSE [k \in {"verb", "metadataPrefix"}
                  \cup (IF cfg.set_spec # "" THEN {"set"} ELSE {})
                  \cup (IF from_date # None THEN {"from"} ELSE {}) |->
            CASE k = "verb" -> "ListRecords"
              [] k = "metadataPrefix" -> cfg.metadata_prefix
              [] k = "set" -> cfg.set_spec
              [] k = "from" -> from_date]

\* ------------------------------------------------------------------- state

VARIABLES
    records,        \* the records table of the index: its rows
    harvest_state,  \* the harvest_state table: rows (repo_id, last_harvest_date)
    clock,          \* today's date (UTC), a day number
    run,            \* per invocation: the locals of the connector and of iter_records
    seen            \* per invocation: what the server has sent and what came of it

vars == <<records, harvest_state, clock, run, seen>>

\* An invocation slot with no harvest in it.
IdleRun ==
    [pc |-> "idle", config |-> OMEKA_UH_CONFIG, mode |-> "full", from_date |-> None,
     resumption_token |-> NoText, pending |-> <<>>, rt_el |-> RtEl(FALSE, NoText),
     count |-> 0, error |-> "none"]

\* No request sent yet.
NoRequest == <<>>

\* What has been observed of an invocation: the last response it got, the
\* pairs its paginator yielded, the record elements the fetched pages held
\* that have a non-blank identifier and a metadata container, their
\* identifiers, whether a fetched page held any other record element (and
\* whether the page being consumed holds one with an identifier that the
\* index held a record of when the page came), the watermark when it started and the day it returned, the parameters of the
\* last request sent, what the page with an <error> element held besides
\* (pairs to yield, a token to follow), and the last element given to the mapper.
IdleSeen ==
    [outcome |-> "none", status |-> 0, yielded |-> 0, eligible |-> 0,
     ids |-> {}, skipped |-> FALSE, skipped_indexed |-> FALSE, wm_at_start |-> None, finished_on |-> None,
     request |-> NoRequest, error_page |-> [pairs |-> 0, token |-> FALSE],
     pair |-> [oai_identifier |-> NoText, dc_el |-> <<>>]]

\* ----------------------------------------------------- the harvest state store

\* A row of the harvest_state table.
StateRow(repo_id, last_harvest_date) ==
    [repo_id |-> repo_id, last_harvest_date |-> last_harvest_date]

\* get_last_harvest_date: SELECT ... WHERE repo_id = ?, fetchone()
get_last_harvest_date(state, repo_id) ==
    LET rows == {row \in state : row.repo_id = repo_id}
    IN  IF rows # {} THEN (CHOOSE row \in rows : TRUE).last_harvest_date ELSE None

\* Mutants of update_last_harvest_date: a plain INSERT, with no conflict
\* clause; a table of one row, whatever the source; the date is that of the
\* first day (a default argument evaluated once); the row the table has is
\* kept (ON CONFLICT DO NOTHING).
update_last_harvest_date_Insert(state, repo_id, date_str) ==
    state \cup {StateRow(repo_id, date_str)}

update_last_harvest_date_SingleRow(state, repo_id, date_str) ==
    {StateRow(repo_id, date_str)}

update_last_harvest_date_FirstDay(state, repo_id, date_str) ==
    {row \in state : row.repo_id # repo_id} \cup {StateRow(repo_id, 1)}

update_last_harvest_date_KeepsOld(state, repo_id, date_str) ==
    IF \E row \in state : row.repo_id = repo_id
    THEN state ELSE state \cup {StateRow(repo_id, date_str)}

\* update_last_harvest_date: INSERT ... ON CONFLICT(repo_id) DO UPDATE
update_last_harvest_date(state, repo_id, date_str) ==
    {row \in state : row.repo_id # repo_id} \cup {StateRow(repo_id, date_str)}

\* ------------------------------------------------------------------ the index

\* Mutant of index_record: a plain INSERT into a table without a key.
index_record_Appends(table, record) == table \cup {record}

\* SqliteSearchBackend.index_record: INSERT OR REPLACE, id being the primary key
index_record(table, record) ==
    {row \in table : row.id # record.id} \cup {record}

\* The identifiers the index holds.
IndexedIds(table) == {row.id : row \in table}

\* ---------------------------------------------------------------- the claims' words

\* A record element that has a non-blank identifier and a metadata container.
Eligible(rec) ==
    /\ rec.header /\ rec.has_identifier
    /\ \E i \in 1..Len(rec.identifier_text) : rec.identifier_text[i] # " "
    /\ rec.has_metadata /\ rec.container # "none"

EligibleEls(recs) == {i \in 1..Len(recs) : Eligible(recs[i])}

\* What the record list of a page amounts to: the pairs the paginator yields
\* from it and, in the claims' words, how many of its record elements have a
\* non-blank identifier and a metadata container, their identifiers, and
\* whether some record element is not one of them, and the identifiers of
\* those that have one.
ParsedPage(recs) ==
    [pending |-> Yields(recs),
     eligible |-> Cardinality(EligibleEls(recs)),
     ids |-> {Strip(recs[i].identifier_text) : i \in EligibleEls(recs)},
     skipped |-> EligibleEls(recs) # 1..Len(recs),
     skipped_ids |-> {Strip(recs[i].identifier_text) :
                        i \in {j \in 1..Len(recs) \ EligibleEls(recs) :
                                 recs[j].has_identifier}} \ {NoText}]

\* The pages a server may send, parsed.
ParsedPages == {ParsedPage(recs) : recs \in RecordLists}

\* ------------------------------------------------------------------ actions

Init ==
    /\ records = {}
    /\ harvest_state = {}
    /\ clock = 1
    /\ run = [h \in Harvests |-> IdleRun]
    /\ seen = [h \in Harvests |-> IdleSeen]

\* The sources that have left something in the database.
SourcesInDb ==
    {row.repo_id : row \in harvest_state}
      \cup {c.repo_id : c \in {c \in Configs :
                \E record \in records : record.repository = c.repository}}

\* The callers this specification considers: one harvest call at a time (it
\* runs in the first slot), on a database that only this source has used.
MayStart(h, cfg) ==
    /\ h = "h1"
    /\ SourcesInDb \subseteq {cfg.repo_id}

\* Mutant of Begin: the full harvest passes the watermark as from_date too.
Begin_FullReadsWatermark(h, cfg, m) ==
    /\ run' = [run EXCEPT ![h] =
                 [IdleRun EXCEPT !.pc = "request", !.config = cfg, !.mode = m,
                    !.from_date = get_last_harvest_date(harvest_state, cfg.repo_id)]]
    /\ seen' = [seen EXCEPT ![h] =
                 [IdleSeen EXCEPT !.wm_at_start =
                    get_last_harvest_date(harvest_state, cfg.repo_id)]]
    /\ UNCHANGED <<records, harvest_state, clock>>

\* harvest_full / harvest_incremental of the connector of cfg is called: the
\* incremental one reads the watermark, then the loop over iter_records begins.
Begin(h, cfg, m) ==
    /\ run' = [run EXCEPT ![h] =
                 [IdleRun EXCEPT !.pc = "request", !.config = cfg, !.mode = m,
                    !.from_date = IF m = "incremental"
                                  THEN get_last_harvest_date(harvest_state, cfg.repo_id)
                                  ELSE None]]
    /\ seen' = [seen EXCEPT ![h] =
                 [IdleSeen EXCEPT !.wm_at_start =
                    get_last_harvest_date(harvest_state, cfg.repo_id)]]
    /\ UNCHANGED <<records, harvest_state, clock>>

\* A harvest endpoint calls the connector of one of the sources.
Start(h) ==
    /\ run[h].pc = "idle"
    /\ \E cfg \in Configs, m \in Modes : MayStart(h, cfg) /\ Begin(h, cfg, m)

\* Mutant of Raise: the watermark is updated on the way out (a finally clause).
Raise_UpdatesWatermark(h, exc) ==
    /\ run' = [run EXCEPT ![h].pc = "fatal", ![h].error = exc,
                          ![h].pending = <<>>, ![h].rt_el = RtEl(FALSE, NoText)]
    /\ harvest_state' =
         update_last_harvest_date(harvest_state, run[h].config.repo_id, clock)

\* An exception leaves iter_records (or the mapper) and, uncaught by the
\* connector, the harvest: the generator is closed (its page is dropped) and
\* the lines after the loop are not run.
Raise(h, exc) ==
    /\ run' = [run EXCEPT ![h].pc = "fatal", ![h].error = exc,
                          ![h].pending = <<>>, ![h].rt_el = RtEl(FALSE, NoText)]
    /\ harvest_state' = harvest_state

\* Mutant of RequestFailed: a soft end returns at once, past the lines that
\* follow the loop.
RequestFailed_SoftEndReturns(h, exc, status) ==
    IF BreaksLoop(exc, run[h].resumption_token, status)
    THEN /\ run' = [run EXCEPT ![h].pc = "done", ![h].rt_el = RtEl(FALSE, NoText)]
         /\ harvest_state' = harvest_state
    ELSE Raise(h, IF exc = "httpx.HTTPStatusError" THEN "RuntimeError" ELSE exc)

\* client.get / raise_for_status raised exc: the except clause catches
\* HTTPStatusError alone; it breaks out of the loop on a soft end and raises
\* RuntimeError otherwise. Any other exception propagates as it is.
RequestFailed(h, exc, status) ==
    IF BreaksLoop(exc, run[h].resumption_token, status)
    THEN /\ run' = [run EXCEPT ![h].pc = "finish"]
         /\ harvest_state' = harvest_state
    ELSE Raise(h, IF exc = "httpx.HTTPStatusError" THEN "RuntimeError" ELSE exc)

\* The parameters client.get is called with.
Sent(h) == ReqParams(run[h].config, run[h].from_date, run[h].resumption_token)

\* client.get raises httpx.TimeoutException (the timeout of the client).
Timeout(h) ==
    /\ run[h].pc = "request"
    /\ RequestFailed(h, "httpx.TimeoutException", 0)
    /\ seen' = [seen EXCEPT ![h].outcome = "timeout", ![h].status = 0,
                            ![h].request = Sent(h)]
    /\ UNCHANGED <<records, clock>>

\* client.get raises httpx.ConnectError.
ConnectError(h) ==
    /\ run[h].pc = "request"
    /\ RequestFailed(h, "httpx.ConnectError", 0)
    /\ seen' = [seen EXCEPT ![h].outcome = "connect_error", ![h].status = 0,
                            ![h].request = Sent(h)]
    /\ UNCHANGED <<records, clock>>

\* The server answers with an error status: raise_for_status raises
\* httpx.HTTPStatusError.
HttpError(h) ==
    /\ run[h].pc = "request"
    /\ \E status \in ErrorStatuses :
        /\ RequestFailed(h, "httpx.HTTPStatusError", status)
        /\ seen' = [seen EXCEPT ![h].outcome = "http_error", ![h].status = status,
                                    ![h].request = Sent(h)]
    /\ UNCHANGED <<records, clock>>

\* ET.fromstring raises XMLSyntaxError even with recover=True.
Unparseable(h) ==
    /\ run[h].pc = "request"
    /\ Raise(h, "RuntimeError")
    /\ seen' = [seen EXCEPT ![h].outcome = "unparseable", ![h].status = 200,
                            ![h].request = Sent(h)]
    /\ UNCHANGED <<records, clock>>

\* What a page with an <error> element may hold besides: how many pairs its
\* record elements would yield, and whether it has a token to follow.
ErrorPages ==
    { [pairs |-> Len(page.pending), token |-> NextToken(rt) # NoText] :
        page \in ParsedPages, rt \in RtEls }

\* Mutant of OaiError: the records of the page are yielded before the
\* <error> element is looked for.
OaiError_YieldsFirst(h) ==
    /\ run[h].pc = "request"
    /\ \E page \in ParsedPages, rt \in RtEls :
        /\ run' = [run EXCEPT ![h].pc = "yield", ![h].pending = page.pending,
                              ![h].rt_el = rt]
        /\ seen' = [seen EXCEPT
              ![h].outcome = "oai_error", ![h].status = 200, ![h].request = Sent(h),
              ![h].error_page = [pairs |-> Len(page.pending),
                                 token |-> NextToken(rt) # NoText]]
    /\ UNCHANGED <<records, harvest_state, clock>>

\* A parsed page with an <error> element: RuntimeError, whatever records and
\* resumption token the page holds besides.
OaiError(h) ==
    /\ run[h].pc = "request"
    /\ \E error_page \in ErrorPages :
        /\ Raise(h, "RuntimeError")
        /\ seen' = [seen EXCEPT
              ![h].outcome = "oai_error", ![h].status = 200, ![h].request = Sent(h),
              ![h].error_page = error_page]
    /\ UNCHANGED <<records, clock>>

\* The record elements with a non-blank identifier and a metadata container
\* that the invocations in flight have been sent.
Fetched == seen["h1"].eligible + seen["h2"].eligible

\* A parsed page with no <error> element: its pairs are yielded one by one
\* and its resumption token is read after them.
PageFrom(h, pages, rts) ==
    /\ run[h].pc = "request"
    /\ \E page \in pages, rt \in rts :
        /\ Fetched + page.eligible <= MaxCount
        /\ run' = [run EXCEPT ![h].pc = "yield", ![h].pending = page.pending,
                              ![h].rt_el = rt]
        /\ seen' = [seen EXCEPT
              ![h].outcome = "page", ![h].status = 200, ![h].request = Sent(h),
              ![h].eligible = @ + page.eligible,
              ![h].ids = @ \cup page.ids,
              ![h].skipped = @ \/ page.skipped,
              ![h].skipped_indexed = page.skipped_ids \cap IndexedIds(records) # {}]
    /\ UNCHANGED <<records, harvest_state, clock>>

\* The server answers with a page of any record list and any token element.
Page(h) == PageFrom(h, ParsedPages, RtEls)

\* The server answers with a page that has no resumptionToken element.
LastPage(h) == PageFrom(h, ParsedPages, {RtEl(FALSE, NoText)})

\* Mutant of Index: a record is counted only if its identifier is new to the
\* index.
Index_CountsNewIds(h) ==
    /\ run[h].pc = "yield"
    /\ run[h].pending # <<>>
    /\ LET pair == Head(run[h].pending)
           cfg == run[h].config
       IN  /\ seen' = [seen EXCEPT ![h].yielded = @ + 1, ![h].pair = pair]
           /\ IF MapperRaises(pair.oai_identifier, pair.dc_el)
              THEN /\ Raise(h, "pydantic.ValidationError")
                   /\ UNCHANGED records
              ELSE /\ records' = index_record(records,
                          MappedFields(pair.oai_identifier, pair.dc_el,
                                       cfg.institution, cfg.repository, clock))
                   /\ run' = [run EXCEPT
                         ![h].pending = Tail(@),
                         ![h].count = IF pair.oai_identifier \in IndexedIds(records)
                                      THEN @ ELSE @ + 1]
                   /\ UNCHANGED harvest_state
    /\ UNCHANGED clock

\* The connector's loop body on the next yielded pair: map it, index it,
\* count it. A ValidationError of the mapper leaves the harvest.
Index(h) ==
    /\ run[h].pc = "yield"
    /\ run[h].pending # <<>>
    /\ LET pair == Head(run[h].pending)
           cfg == run[h].config
       IN  /\ seen' = [seen EXCEPT ![h].yielded = @ + 1, ![h].pair = pair]
           /\ IF MapperRaises(pair.oai_identifier, pair.dc_el)
              THEN /\ Raise(h, "pydantic.ValidationError")
                   /\ UNCHANGED records
              ELSE /\ records' = index_record(records,
                          MappedFields(pair.oai_identifier, pair.dc_el,
                                       cfg.institution, cfg.repository, clock))
                   /\ run' = [run EXCEPT ![h].pending = Tail(@), ![h].count = @ + 1]
                   /\ UNCHANGED harvest_state
    /\ UNCHANGED clock

\* After the for-loop over the page's records: continue with the page's
\* resumption token, or break.
NextPage(h) ==
    /\ run[h].pc = "yield"
    /\ PageExhausted(run[h].pending)
    /\ LET token == NextToken(run[h].rt_el)
       IN  run' = [run EXCEPT
                     ![h].pc = AfterPage(token),
                     ![h].resumption_token = IF token # NoText THEN token ELSE @]
    /\ seen' = [seen EXCEPT ![h].skipped_indexed = FALSE]
    /\ UNCHANGED <<records, harvest_state, clock>>

\* Mutants of UpdatesWatermark: both modes update always; both only if
\* count > 0; the full harvest alone updates.
UpdatesWatermark_Always(mode, count) == TRUE

UpdatesWatermark_FullOnly(mode, count) == mode = "full"

UpdatesWatermark_IfAny(mode, count) == count > 0

\* Whether the connector updates the watermark once the loop is over.
UpdatesWatermark(mode, count) == mode = "full" \/ count > 0

\* The loop is over: update the watermark (full: always; incremental: if
\* count > 0) and return count.
Finish(h) ==
    /\ run[h].pc = "finish"
    /\ harvest_state' =
         IF UpdatesWatermark(run[h].mode, run[h].count)
         THEN update_last_harvest_date(harvest_state, run[h].config.repo_id, clock)
         ELSE harvest_state
    /\ run' = [run EXCEPT ![h].pc = "done", ![h].rt_el = RtEl(FALSE, NoText)]
    /\ seen' = [seen EXCEPT ![h].finished_on = clock]
    /\ UNCHANGED <<records, clock>>

\* The endpoint answers (harvested_records, or HTTP 502) and the slot is free.
Return(h) ==
    /\ run[h].pc \in {"done", "fatal"}
    /\ run' = [run EXCEPT ![h] = IdleRun]
    /\ seen' = [seen EXCEPT ![h] = IdleSeen]
    /\ UNCHANGED <<records, harvest_state, clock>>

\* Midnight (UTC).
Tick ==
    /\ clock < MaxDay
    /\ clock' = clock + 1
    /\ UNCHANGED <<records, harvest_state, run, seen>>

Next ==
    \/ \E h \in Harvests :
        \/ Start(h)
        \/ Timeout(h)
        \/ ConnectError(h)
        \/ HttpError(h)
        \/ Unparseable(h)
        \/ OaiError(h)
        \/ Page(h)
        \/ Index(h)
        \/ NextPage(h)
        \/ Finish(h)
        \/ Return(h)
    \/ Tick

Spec == Init /\ [][Next]_vars

\* One harvest call on the empty database, followed to its end. The code is
\* one synchronous loop and every network call has a timeout, so a started
\* invocation always takes its next step.
Iterate(h) ==
    \/ Timeout(h)
    \/ ConnectError(h)
    \/ HttpError(h)
    \/ Unparseable(h)
    \/ OaiError(h)
    \/ Page(h)
    \/ Index(h)
    \/ NextPage(h)
    \/ Finish(h)

NextOnce == \E h \in Harvests : Start(h) \/ Iterate(h)

FairSpec == Init /\ [][NextOnce]_vars /\ WF_vars(Iterate("h1"))

\* The two sources harvested at the same time, the days passing: one
\* invocation on each, their steps interleaved (each statement on the
\* database is its own transaction), against servers that, when they answer
\* with records, send the whole list in one page.
SourceOf(h) == IF h = "h1" THEN OMEKA_UH_CONFIG ELSE DSPACE_UCLV_CONFIG

StartBoth(h) ==
    /\ run[h].pc = "idle"
    /\ \E m \in Modes : Begin(h, SourceOf(h), m)

BothNext ==
    \/ \E h \in Harvests :
        \/ StartBoth(h)
        \/ Timeout(h)
        \/ ConnectError(h)
        \/ HttpError(h)
        \/ Unparseable(h)
        \/ OaiError(h)
        \/ LastPage(h)
        \/ Index(h)
        \/ NextPage(h)
        \/ Finish(h)
    \/ Tick

BothSpec == Init /\ [][BothNext]_vars

\* One source harvested incrementally by two invocations at the same time,
\* nothing coordinating them, the days passing. The source has a watermark
\* from an earlier full harvest, which found no record.
RaceSource == OMEKA_UH_CONFIG

RaceInit ==
    /\ records = {}
    /\ harvest_state = {StateRow(RaceSource.repo_id, 1)}
    /\ clock = 1
    /\ run = [h \in Harvests |-> IdleRun]
    /\ seen = [h \in Harvests |-> IdleSeen]

StartRace(h) ==
    /\ run[h].pc = "idle"
    /\ Begin(h, RaceSource, "incremental")

RaceNext ==
    \/ \E h \in Harvests :
        \/ StartRace(h)
        \/ Timeout(h)
        \/ ConnectError(h)
        \/ HttpError(h)
        \/ Unparseable(h)
        \/ OaiError(h)
        \/ LastPage(h)
        \/ Index(h)
        \/ NextPage(h)
        \/ Finish(h)
    \/ Tick

RaceSpec == RaceInit /\ [][RaceNext]_vars

\* The mapper on its own: a harvest whose first page holds one record, with
\* any of the <dc> elements, and no resumption token; the connector maps it,
\* indexes it and returns.
MapperInit ==
    /\ records = {}
    /\ harvest_state = {}
    /\ clock = 1
    /\ \E cfg \in Configs, m \in Modes, dc \in DcEls :
        /\ run = [h \in Harvests |->
                    IF h = "h1"
                    THEN [IdleRun EXCEPT !.pc = "yield", !.config = cfg, !.mode = m,
                            !.pending = <<[oai_identifier |-> <<"oai:a">>, dc_el |-> dc]>>]
                    ELSE IdleRun]
        /\ seen = [h \in Harvests |->
                     IF h = "h1"
                     THEN [IdleSeen EXCEPT !.outcome = "page", !.status = 200,
                             !.eligible = 1, !.ids = {<<"oai:a">>},
                             !.request = ReqParams(cfg, None, NoText)]
                     ELSE IdleSeen]

MapperNext == \E h \in Harvests : Index(h) \/ NextPage(h) \/ Finish(h)

MapperSpec == MapperInit /\ [][MapperNext]_vars

\* ------------------------------------------------------------------ claims

\* The stored watermark of the source an invocation harvests.
Watermark(h) == get_last_harvest_date(harvest_state, run[h].config.repo_id)

\* The invocation is between its call and its return.
Running(h) == run[h].pc \in {"request", "yield", "finish"}

\* The request that just failed was a continuation request / the first request.
Continuation(h) == run[h].resumption_token # NoText
FirstRequest(h) == run[h].resumption_token = NoText

\* Every pair of the pages fetched so far has been indexed and counted.
AllIndexed(h) ==
    /\ run[h].count = seen[h].eligible
    /\ seen[h].ids \subseteq IndexedIds(records)

\* C1: when a continuation request is answered with a status >= 500 the
\* iteration stops without raising: the harvest goes on to return normally,
\* its count is the number of records of the pages fetched before, and all of
\* them are in the index.
C1_SoftEndReturnsFetched ==
    \A h \in Harvests :
        (seen[h].outcome = "http_error" /\ seen[h].status >= 500 /\ Continuation(h))
            => /\ run[h].pc \in {"finish", "done"}
               /\ run[h].error = "none"
               /\ AllIndexed(h)

\* A harvest has returned two records after its second request got a 500.
C1_Witness ==
    \E h \in Harvests :
        /\ run[h].pc = "done" /\ seen[h].outcome = "http_error"
        /\ seen[h].status = 500 /\ Continuation(h) /\ run[h].count = 2

\* C2: a transport or status failure (4xx or 5xx) of the first request is
\* fatal: the harvest raises and has indexed nothing.
C2_FirstRequestFailureFatal ==
    \A h \in Harvests :
        (seen[h].outcome \in {"timeout", "connect_error", "http_error"} /\ FirstRequest(h))
            => /\ run[h].pc = "fatal"
               /\ run[h].error # "none"
               /\ run[h].count = 0
               /\ seen[h].yielded = 0

\* A first request answered 500 has made the harvest raise.
C2_Witness ==
    \E h \in Harvests :
        /\ run[h].pc = "fatal" /\ seen[h].outcome = "http_error"
        /\ seen[h].status = 500 /\ FirstRequest(h)

\* C3: after an invocation that ended in a fatal condition, at whatever page,
\* the stored watermark of its source is what it was when the invocation began.
C3_FatalKeepsWatermark ==
    \A h \in Harvests :
        run[h].pc = "fatal" => Watermark(h) = seen[h].wm_at_start

\* A harvest of a source with a watermark of an earlier day has failed on a
\* page after the first, having indexed records.
C3_Witness ==
    \E h \in Harvests :
        /\ run[h].pc = "fatal" /\ Continuation(h) /\ run[h].count > 0
        /\ seen[h].outcome \in {"http_error", "unparseable", "oai_error"}
        /\ seen[h].wm_at_start # None /\ seen[h].wm_at_start < clock

\* C4 as stated: a timeout of the first request is fatal and a timeout of a
\* continuation request is a soft end (the harvest goes on to return).
C4_TimeoutPhaseDependent ==
    \A h \in Harvests :
        seen[h].outcome = "timeout"
            => IF Continuation(h) THEN run[h].pc \in {"finish", "done"}
                                  ELSE run[h].pc = "fatal"

\* C4 amended: a timeout is fatal in both phases: the TimeoutException
\* leaves iter_records and the harvest, the watermark is untouched, and the
\* records of the pages fetched before are in the index.
C4_TimeoutAlwaysFatal ==
    \A h \in Harvests :
        seen[h].outcome = "timeout"
            => /\ run[h].pc = "fatal"
               /\ run[h].error = "httpx.TimeoutException"
               /\ Watermark(h) = seen[h].wm_at_start
               /\ AllIndexed(h)

\* A continuation request has timed out after a page with records.
C4_Witness ==
    \E h \in Harvests :
        /\ seen[h].outcome = "timeout" /\ Continuation(h) /\ run[h].count > 0

\* C5: an incremental harvest that returns with zero records leaves the
\* stored watermark as it was (absent if it was absent); one that returns with
\* at least one record sets it to the date of that moment.
C5_IncrementalWatermark ==
    \A h \in Harvests :
        (run[h].pc = "done" /\ run[h].mode = "incremental")
            => IF run[h].count = 0
               THEN Watermark(h) = seen[h].wm_at_start
               ELSE Watermark(h) = seen[h].finished_on /\ seen[h].finished_on \in Days

\* An incremental harvest has returned zero records on a later day than the
\* stored watermark.
C5_Witness ==
    \E h \in Harvests :
        /\ run[h].pc = "done" /\ run[h].mode = "incremental" /\ run[h].count = 0
        /\ seen[h].wm_at_start # None /\ seen[h].wm_at_start < seen[h].finished_on

\* C6: a full harvest that returns has set the stored watermark to the date
\* of that moment, also when it harvested nothing.
C6_FullWatermark ==
    \A h \in Harvests :
        (run[h].pc = "done" /\ run[h].mode = "full")
            => Watermark(h) = seen[h].finished_on /\ seen[h].finished_on \in Days

\* A full harvest has returned zero records, the server having sent none.
C6_Witness ==
    \E h \in Harvests :
        /\ run[h].pc = "done" /\ run[h].mode = "full" /\ run[h].count = 0
        /\ seen[h].outcome = "page" /\ seen[h].wm_at_start # seen[h].finished_on

\* C7 as stated: every run of iter_records terminates, whatever the server does.
C7_AlwaysTerminates ==
    (run["h1"].pc = "request") ~> (run["h1"].pc \in {"finish", "done", "fatal"})

\* C7 amended: a run of iter_records that does not terminate sends
\* continuation requests forever: the only way not to terminate is a server
\* that answers every continuation request with a page carrying a non-blank
\* resumption token.
C7_RunsOnlyWhileTokens ==
    \/ []<>(~Running("h1"))
    \/ []<>(run["h1"].pc = "request" /\ Continuation("h1"))

\* A page has come back with the very token it was requested with.
C7_Witness ==
    \E h \in Harvests :
        /\ run[h].pc = "yield" /\ Continuation(h)
        /\ NextToken(run[h].rt_el) = run[h].resumption_token

\* C8: a 4xx answer is fatal in every phase, also to a continuation request:
\* the harvest raises RuntimeError, and (the last response of the invocation
\* being that one) no further request is sent.
C8_ClientErrorFatal ==
    \A h \in Harvests :
        (seen[h].outcome = "http_error" /\ seen[h].status \in 400..499)
            => run[h].pc = "fatal" /\ run[h].error = "RuntimeError"

\* A continuation request has been answered 404.
C8_Witness ==
    \E h \in Harvests :
        /\ seen[h].outcome = "http_error" /\ seen[h].status = 404 /\ Continuation(h)

\* C9: every yielded pair is indexed before the next one is pulled and before
\* the next request is sent: whenever a request is about to be sent, and when
\* a request has failed fatally, every record of the pages fetched before is
\* counted and in the index.
C9_IndexedBeforeNextRequest ==
    \A h \in Harvests :
        /\ run[h].pc = "request" => AllIndexed(h)
        /\ (run[h].pc = "fatal" /\ seen[h].outcome # "page") => AllIndexed(h)
        /\ run[h].pc # "fatal" => seen[h].yielded = run[h].count

\* The second request of a harvest has failed fatally after a first page of
\* two records.
C9_Witness ==
    \E h \in Harvests :
        /\ run[h].pc = "fatal" /\ seen[h].outcome = "unparseable"
        /\ Continuation(h) /\ run[h].count = 2

\* C10: record elements without a non-blank identifier or without a metadata
\* container are skipped without error and all the others are yielded: the
\* pairs yielded and still to yield are as many as the record elements
\* fetched that have both, and a harvest that returns has counted them all.
C10_SkipsOnlyIncomplete ==
    \A h \in Harvests :
        /\ run[h].pc # "fatal" =>
              seen[h].yielded + Len(run[h].pending) = seen[h].eligible
        /\ run[h].pc = "done" => run[h].count = seen[h].eligible

\* A harvest has returned one record from pages that held an incomplete
\* record element too.
C10_Witness ==
    \E h \in Harvests :
        /\ run[h].pc = "done" /\ seen[h].skipped /\ run[h].count = 1

\* C11: a parsed page with an explicit OAI <error> element makes iter_records
\* raise at once: no record of that page is yielded, also when the page holds
\* record elements, and its resumption token is not followed (the invocation
\* is over, with what the pages before had given counted and indexed).
C11_OaiErrorRaisesFirst ==
    \A h \in Harvests :
        seen[h].outcome = "oai_error"
            => /\ run[h].pc = "fatal" /\ run[h].error = "RuntimeError"
               /\ run[h].pending = <<>>
               /\ seen[h].yielded = run[h].count
               /\ AllIndexed(h)

\* A page with an <error> element, record elements to yield and a resumption
\* token has come back to a continuation request.
C11_Witness ==
    \E h \in Harvests :
        /\ seen[h].outcome = "oai_error" /\ Continuation(h) /\ run[h].count > 0
        /\ seen[h].error_page.pairs > 0 /\ seen[h].error_page.token

\* C12: the first request of an invocation carries no resumption token; every
\* later request carries the verb ListRecords and the resumption token of the
\* page just before it, and nothing else (no metadataPrefix, set, from, until).
C12_ContinuationCarriesTokenOnly ==
    [][\A h \in Harvests :
          (run[h].pc = "request" /\ run'[h].pc # "request")
              => LET p == seen'[h].request
                 IN  /\ p["verb"] = "ListRecords"
                     /\ IF seen[h].outcome = "none"
                        THEN "resumptionToken" \notin DOMAIN p
                        ELSE /\ DOMAIN p = {"verb", "resumptionToken"}
                             /\ run[h].rt_el.present
                             /\ p["resumptionToken"] = Strip(run[h].rt_el.text)
                             /\ p["resumptionToken"] # <<>>]_vars

\* The request for the second page of an incremental harvest with a watermark
\* has been sent, with the token of the first page, and answered with a page.
C12_Witness ==
    \E h \in Harvests :
        /\ seen[h].outcome = "page" /\ run[h].mode = "incremental"
        /\ run[h].from_date # None /\ run[h].pc = "yield"
        /\ seen[h].request # NoRequest
        /\ "resumptionToken" \in DOMAIN seen[h].request
        /\ seen[h].request["resumptionToken"] = <<"t2">>

\* C13 as stated: the stored watermark of a source changes only when a full
\* harvest of it completes (to the date of that moment); an incremental
\* harvest leaves it as it was.
C13_OnlyFullHarvestsWrite ==
    \A h \in Harvests :
        run[h].pc # "idle"
            => IF run[h].pc = "done" /\ run[h].mode = "full"
               THEN Watermark(h) = seen[h].finished_on
               ELSE Watermark(h) = seen[h].wm_at_start

\* C13 amended: the stored watermark of a source changes only when a harvest
\* of it returns normally that is full or has indexed at least one record; it
\* then becomes the date of that moment.
C13_FullOrNonEmptyHarvestsWrite ==
    \A h \in Harvests :
        run[h].pc # "idle"
            => IF run[h].pc = "done" /\ (run[h].mode = "full" \/ run[h].count > 0)
               THEN Watermark(h) = seen[h].finished_on
               ELSE Watermark(h) = seen[h].wm_at_start

\* An incremental harvest with records has moved a watermark of an earlier day.
C13_Witness ==
    \E h \in Harvests :
        /\ run[h].pc = "done" /\ run[h].mode = "incremental" /\ run[h].count > 0
        /\ seen[h].wm_at_start # None /\ seen[h].wm_at_start < seen[h].finished_on
        /\ Watermark(h) = seen[h].finished_on

\* The last pair given to the mapper came out as a record, which the index
\* holds under its identifier.
Mapped(h) == seen[h].pair.oai_identifier \in IndexedIds(records)
MappedRecord(h) == CHOOSE row \in records : row.id = seen[h].pair.oai_identifier

\* A text that, leading whitespace apart, begins with http:// or https://.
IsHttp(text) ==
    \E i \in 1..Len(text) :
        /\ text[i] \in {"http://", "https://"}
        /\ \A j \in 1..(i - 1) : text[j] = " "

\* A text that is not only whitespace.
NonBlank(text) == \E i \in 1..Len(text) : text[i] # " "

\* The occurrences of a field in a raw element, in document order.
Occurrences(dc_el, tag) == {i \in 1..Len(dc_el) : dc_el[i].tag = tag}

\* C14: the mapper never raises, whatever the identifier and the raw element:
\* no harvest ends with the ValidationError of the canonical record.
C14_MapperNeverRaises ==
    \A h \in Harvests : run[h].error # "pydantic.ValidationError"

\* The raw element has two identifier occurrences: a non-URL value, then an
\* HTTP(S) value.
NonUrlThenUrl(dc_el) ==
    \E i, j \in Occurrences(dc_el, "identifier") :
        /\ i < j /\ Occurrences(dc_el, "identifier") = {i, j}
        /\ NonBlank(dc_el[i].text) /\ ~IsHttp(dc_el[i].text)
        /\ IsHttp(dc_el[j].text)

\* C15 as stated: when a non-URL identifier value precedes the HTTP(S) value,
\* the landing page of the mapped record is absent.
C15_FirstOccurrenceDecides ==
    \A h \in Harvests :
        (Mapped(h) /\ NonUrlThenUrl(seen[h].pair.dc_el))
            => MappedRecord(h).url_landing_page = NoText

\* C15 amended: when a non-URL identifier value precedes the HTTP(S) value,
\* the landing page of the mapped record is that HTTP(S) value, trimmed: the
\* scan goes past the values that are not URLs.
C15_ScanSkipsNonUrls ==
    \A h \in Harvests :
        (Mapped(h) /\ NonUrlThenUrl(seen[h].pair.dc_el))
            => \E j \in Occurrences(seen[h].pair.dc_el, "identifier") :
                  /\ IsHttp(seen[h].pair.dc_el[j].text)
                  /\ MappedRecord(h).url_landing_page = Strip(seen[h].pair.dc_el[j].text)

\* A record has been mapped from an element with the identifiers hdl:1 and
\* http://host/1, in that order.
C15_Witness ==
    \E h \in Harvests :
        /\ Mapped(h) /\ NonUrlThenUrl(seen[h].pair.dc_el)
        /\ MappedRecord(h).url_landing_page = <<"http://", "host/1">>

\* C16: the landing page of a mapped record is the first identifier value, in
\* document order, whose trimmed text begins with http:// or https://, and it
\* is absent exactly when no identifier value begins so.
C16_LandingPageFirstUrl ==
    \A h \in Harvests :
        Mapped(h) =>
            LET dc_el == seen[h].pair.dc_el
                urls == {i \in Occurrences(dc_el, "identifier") : IsHttp(dc_el[i].text)}
                url == MappedRecord(h).url_landing_page
            IN  /\ (url = NoText) <=> (urls = {})
                /\ urls # {} =>
                     \E i \in urls : /\ \A j \in urls : i <= j
                                      /\ url = Strip(dc_el[i].text)

\* A record has been mapped from an element with two URL identifiers, the
\* first of which had leading whitespace.
C16_Witness ==
    \E h \in Harvests :
        /\ Mapped(h)
        /\ Len(seen[h].pair.dc_el) = 2
        /\ seen[h].pair.dc_el[1] = DcField("identifier", <<" ", "https://", "host/2">>)
        /\ seen[h].pair.dc_el[2] = DcField("identifier", <<"http://", "host/1">>)
        /\ MappedRecord(h).url_landing_page = <<"https://", "host/2">>

\* C18: every mapped record has a non-blank title: the placeholder when the
\* raw element has no title occurrence or only blank ones, and otherwise the
\* first non-blank title occurrence, trimmed.
C18_TitleNeverBlank ==
    \A h \in Harvests :
        Mapped(h) =>
            LET dc_el == seen[h].pair.dc_el
                titles == {i \in Occurrences(dc_el, "title") : NonBlank(dc_el[i].text)}
                title == MappedRecord(h).title
            IN  /\ NonBlank(title)
                /\ titles = {} => title = <<"Sin titulo">>
                /\ titles # {} =>
                     \E i \in titles : /\ \A j \in titles : i <= j
                                        /\ title = Strip(dc_el[i].text)

\* A record has been mapped from an element whose first title is blank and
\* whose second is not.
C18_Witness ==
    \E h \in Harvests :
        /\ Mapped(h)
        /\ Len(seen[h].pair.dc_el) = 2
        /\ seen[h].pair.dc_el[1] = DcField("title", <<" ">>)
        /\ seen[h].pair.dc_el[2] = DcField("title", <<" ", "Title A", " ">>)
        /\ MappedRecord(h).title = <<"Title A">>

\* The identifiers of the sources.
RepoIds == {c.repo_id : c \in Configs}

RowsOf(state, repo_id) == {row \in state : row.repo_id = repo_id}

\* C17: the harvest state store is an upsert keyed by the source identifier:
\* it never holds two rows of a source, a source never set reads as absent,
\* and on every stored state an update reads back, is overwritten by a later
\* one (last write wins) and changes nothing when repeated.
C17_UpsertLastWriteWins ==
    \A s \in RepoIds :
        /\ Cardinality(RowsOf(harvest_state, s)) <= 1
        /\ RowsOf(harvest_state, s) = {} => get_last_harvest_date(harvest_state, s) = None
        /\ \A d \in Days :
              LET st == update_last_harvest_date(harvest_state, s, d)
              IN  /\ get_last_harvest_date(st, s) = d
                  /\ Cardinality(RowsOf(st, s)) = 1
                  /\ update_last_harvest_date(st, s, d) = st
                  /\ \A d2 \in Days :
                        get_last_harvest_date(update_last_harvest_date(st, s, d2), s) = d2

\* A harvest has overwritten the watermark of an earlier day.
C17_Witness ==
    \E h \in Harvests :
        /\ run[h].pc = "done" /\ seen[h].wm_at_start # None
        /\ seen[h].wm_at_start < clock
        /\ harvest_state = {StateRow(run[h].config.repo_id, clock)}

\* C19: harvests of different sources are independent: a step of a harvest of
\* one source, whatever the other harvest is doing, leaves the stored
\* watermark of the other source as it is, and leaves every indexed record of
\* the other source as it is unless it indexes a record under that very
\* identifier (the identifiers of the two sources are then not disjoint).
C19_SourcesIndependent ==
    [][\A h \in Harvests :
          run'[h] # run[h] =>
              \A cfg \in Configs \ {run'[h].config} :
                  /\ get_last_harvest_date(harvest_state', cfg.repo_id)
                        = get_last_harvest_date(harvest_state, cfg.repo_id)
                  /\ \A row \in records :
                        row.repository = cfg.repository
                            => \/ row \in records'
                               \/ /\ run[h].pending # <<>>
                                  /\ row.id = Head(run[h].pending).oai_identifier]_vars

\* One source has been harvested and has its watermark and a record in the
\* index, and the harvest of the other, which began meanwhile, has indexed a
\* record and is about to set its own watermark.
C19_Witness ==
    /\ run["h1"].pc = "done" /\ run["h2"].pc = "finish"
    /\ run["h1"].count = 1 /\ run["h2"].count = 1
    /\ seen["h2"].wm_at_start = None /\ run["h2"].mode = "incremental"
    /\ get_last_harvest_date(harvest_state, "omeka_uh") # None
    /\ get_last_harvest_date(harvest_state, "dspace_uclv") = None
    /\ \E i, j \in records :
          /\ i.repository = OMEKA_UH_CONFIG.repository
          /\ j.repository = DSPACE_UCLV_CONFIG.repository

\* iter_records has stopped or raised: the connector is past its loop.
Stopped(h) == run[h].pc \in {"finish", "done", "fatal"}

\* C20: Done and Fatal are terminal: once iter_records has stopped (a page
\* without a non-blank resumption token, a soft end) or has raised, the
\* invocation sends no further request and is yielded no further record, until
\* it returns; and a page whose records are consumed and whose resumption
\* token is present but blank ends the pagination as Done.
C20_DoneAndFatalTerminal ==
    [][\A h \in Harvests :
          /\ Stopped(h) =>
                \/ run'[h].pc = "idle"
                \/ /\ Stopped(h)'
                   /\ seen'[h].request = seen[h].request
                   /\ seen'[h].yielded = seen[h].yielded
                   /\ run'[h].pending = <<>>
          /\ ( /\ run[h].pc = "yield" /\ run[h].pending = <<>>
               /\ run[h].rt_el.present
               /\ \A i \in 1..Len(run[h].rt_el.text) : run[h].rt_el.text[i] = " "
               /\ run'[h] # run[h] )
                => run'[h].pc = "finish" /\ run'[h].error = "none"]_vars

\* The pagination has ended on a page with records and a resumption token
\* element that holds only whitespace.
C20_Witness ==
    \E h \in Harvests :
        /\ run[h].pc = "finish" /\ run[h].count > 0 /\ seen[h].outcome = "page"
        /\ run[h].rt_el = RtEl(TRUE, <<" ">>)

\* C21: the first request of an incremental harvest carries from = the
\* watermark that was stored when the harvest began, and no from parameter
\* when none was stored (the request of a full harvest); no request of a full
\* harvest carries from, and no request at all carries until.
C21_IncrementalSendsWatermark ==
    \A h \in Harvests :
        seen[h].request # NoRequest =>
            LET p == seen[h].request
            IN  /\ "until" \notin DOMAIN p
                /\ IF /\ run[h].mode = "incremental"
                      /\ seen[h].wm_at_start # None
                      /\ "resumptionToken" \notin DOMAIN p
                   THEN "from" \in DOMAIN p /\ p["from"] = seen[h].wm_at_start
                   ELSE "from" \notin DOMAIN p
                /\ ("resumptionToken" \notin DOMAIN p /\ "from" \notin DOMAIN p)
                      => /\ DOMAIN p \subseteq {"verb", "metadataPrefix", "set"}
                         /\ p["metadataPrefix"] = run[h].config.metadata_prefix

\* The first request of an incremental harvest has gone out on the day after
\* the stored watermark, with from = that watermark.
C21_Witness ==
    \E h \in Harvests :
        /\ run[h].mode = "incremental" /\ seen[h].wm_at_start = 1 /\ clock = 2
        /\ seen[h].request # NoRequest
        /\ "from" \in DOMAIN seen[h].request
        /\ seen[h].request["from"] = 1

\* C23: a harvest that ends by a soft end (a 5xx answer to a continuation
\* request) counts as completed for the watermark: a full harvest has set it
\* to the date of its return, an incremental one has done so if it was
\* yielded at least one record and has left it alone otherwise.
C23_SoftEndUpdatesWatermark ==
    \A h \in Harvests :
        (run[h].pc = "done" /\ seen[h].outcome = "http_error")
            => /\ seen[h].status >= 500 /\ Continuation(h)
               /\ IF run[h].mode = "full" \/ seen[h].yielded > 0
                  THEN Watermark(h) = seen[h].finished_on /\ seen[h].finished_on \in Days
                  ELSE Watermark(h) = seen[h].wm_at_start

\* An incremental harvest with a record has ended by a 503 to its second
\* request and has moved the watermark of the day before.
C23_Witness ==
    \E h \in Harvests :
        /\ run[h].pc = "done" /\ seen[h].outcome = "http_error" /\ seen[h].status = 503
        /\ run[h].mode = "incremental" /\ seen[h].yielded > 0
        /\ seen[h].wm_at_start = 1 /\ Watermark(h) = 2

\* C24: the clock not going back, the stored watermark of a source never goes
\* back and never goes from present to absent: every step leaves it as it is
\* or sets it to the date of that moment, which is not before the old value.
C24_WatermarkNeverGoesBack ==
    [][\A s \in RepoIds :
          LET old == get_last_harvest_date(harvest_state, s)
              new == get_last_harvest_date(harvest_state', s)
          IN  /\ new >= old
              /\ new # old => new = clock /\ new \in Days]_vars

\* A full harvest that found no record has moved the watermark of the day
\* before to the day of its return.
C24_Witness ==
    \E h \in Harvests :
        /\ run[h].pc = "done" /\ run[h].mode = "full" /\ run[h].count = 0
        /\ seen[h].wm_at_start = 1 /\ seen[h].finished_on = 2 /\ Watermark(h) = 2

\* C25: no harvest removes a record from the index: every step keeps the
\* indexed identifiers, the index holds one record per identifier, and a
\* stored record stays as it is unless that step indexes a record under its
\* identifier (which replaces it); a record element that is skipped changes
\* nothing.
C25_IndexOnlyGrows ==
    [][/\ IndexedIds(records) \subseteq IndexedIds(records')
       /\ \A id \in IndexedIds(records') :
             Cardinality({row \in records' : row.id = id}) = 1
       /\ \A row \in records :
             \/ row \in records'
             \/ \E h \in Harvests :
                   /\ run[h].pc = "yield" /\ run[h].pending # <<>>
                   /\ Head(run[h].pending).oai_identifier = row.id
                   /\ seen'[h].yielded = seen[h].yielded + 1]_vars

\* A harvest has been sent nothing but record elements that it skipped, one
\* of them with an identifier that the index held a record of from the day
\* before, and is through that page: the stored record is still there.
C25_Witness ==
    \E h \in Harvests :
        /\ run[h].pc = "yield" /\ run[h].pending = <<>>
        /\ seen[h].yielded = 0 /\ seen[h].eligible = 0 /\ clock = 2
        /\ seen[h].skipped_indexed
        /\ records # {} /\ \A row \in records : row.date_indexed = 1

\* C26: the count a harvest returns is the number of pairs its paginator
\* yielded, each of which was indexed; an identifier that comes again is
\* counted again, so the count is at least the number of distinct identifiers
\* the invocation wrote to the index, all of which the index holds.
C26_CountIsPairsYielded ==
    \A h \in Harvests :
        run[h].pc = "done"
            => /\ run[h].count = seen[h].yielded
               /\ run[h].count >= Cardinality(seen[h].ids)
               /\ seen[h].ids \subseteq IndexedIds(records)
               /\ (run[h].count = 0) <=> (seen[h].ids = {})

\* A harvest has returned 2, having been sent the same identifier twice: the
\* index holds that one record.
C26_Witness ==
    \E h \in Harvests :
        /\ run[h].pc = "done" /\ run[h].count = 2
        /\ Cardinality(seen[h].ids) = 1
        /\ IndexedIds(records) = seen[h].ids /\ Cardinality(records) = 1

\* The invocations that have returned and have written the watermark.
Writers == {h \in Harvests : run[h].pc = "done" /\ run[h].count > 0}

\* C22: two incremental harvests of one source run unco-ordinated: whatever
\* their interleaving, the index holds each identifier once, each returns the
\* number of pairs it was yielded, and once both are over the watermark is the
\* one written last (the date of the later of the returns that wrote it, the
\* old one if none did). The execution in which both read the same old
\* watermark and count the same record is the witness below.
C22_RaceLastWriteWins ==
    /\ \A id \in IndexedIds(records) : Cardinality({row \in records : row.id = id}) = 1
    /\ \A h \in Harvests : run[h].pc = "done" => run[h].count = seen[h].yielded
    /\ (\A h \in Harvests : run[h].pc \in {"done", "fatal"})
          => LET wm == get_last_harvest_date(harvest_state, RaceSource.repo_id)
             IN  IF Writers = {} THEN wm = 1
                 ELSE \E h \in Writers :
                        /\ wm = seen[h].finished_on
                        /\ \A g \in Writers : seen[g].finished_on <= seen[h].finished_on

\* Both invocations read the old watermark and sent it as from, both were
\* sent the same record and counted it, the index holds it once, and the
\* watermark is that of the later return.
C22_Witness ==
    /\ \A h \in Harvests :
          /\ run[h].pc = "done" /\ run[h].count = 1
          /\ run[h].from_date = 1 /\ seen[h].wm_at_start = 1
          /\ seen[h].request = ReqParams(RaceSource, 1, NoText)
          /\ seen[h].ids = {<<"oai:a">>}
    /\ Cardinality(records) = 1
    /\ seen["h1"].finished_on = 1 /\ seen["h2"].finished_on = 2
    /\ get_last_harvest_date(harvest_state, RaceSource.repo_id) = 2

====
